---- MODULE Spec2Model ----
(***************************************************************************)
(* A model of pyrixs/loaddata.py: the image <-> photon-events converters   *)
(* and the two loaders that dispatch on the file name.                     *)
(*                                                                         *)
(* Arrays.  A 2D image is a record [nrows, ncols, px] with px a function   *)
(* on (0..nrows-1) \X (0..ncols-1) (numpy's 0-based (row, column)).  A     *)
(* photon_events array is a sequence of rows <<x, y, I>>.  The x and y     *)
(* columns hold multiples of 0.5; they are stored doubled (x = 1.5 is 3),  *)
(* so "+ 0.5" is "2*i + 1" and "(x - 0.5).astype(int)" is the truncation   *)
(* towards zero of (x2 - 1) / 2.                                           *)
(***************************************************************************)
EXTENDS Integers, Sequences, FiniteSets, TLC

\* ---------------------------------------------------------------- bounds
MaxRows == 2
MaxCols == 2
MaxVal == 1
MaxEvents == 2
MaxCoord2 == 3
MaxFrames == 2
MaxOpen == 2

\* ---------------------------------------------------------------- arrays
Max(a, b) == IF a >= b THEN a ELSE b

Cells(nrows, ncols) == (0 .. nrows - 1) \X (0 .. ncols - 1)

Images ==
  UNION { UNION { { [nrows |-> R, ncols |-> C, px |-> p] :
                      p \in [Cells(R, C) -> 0 .. MaxVal] } :
                  C \in 0 .. MaxCols } :
          R \in 0 .. MaxRows }

NoImage == [nrows |-> 0, ncols |-> 0, px |-> [p \in Cells(0, 0) |-> 0]]

\* the sequences over S of length at most n
SeqsUpTo(S, n) == UNION { [1 .. len -> S] : len \in 0 .. n }

\* rows with x and y from 0.0 to MaxCoord2 / 2 in steps of 0.5
EventRows == (0 .. MaxCoord2) \X (0 .. MaxCoord2) \X (0 .. MaxVal)

EventArrays == SeqsUpTo(EventRows, MaxEvents)

\* np.arange(n) + 0.5, doubled: element i (0-based) is 2*i + 1
arange_plus_half(n) == [i \in 1 .. n |-> 2 * (i - 1) + 1]

\* np.meshgrid(xs, ys): two grids of shape (len(ys), len(xs))
meshgrid_X(xs, ys) ==
  [nrows |-> Len(ys), ncols |-> Len(xs),
   px |-> [p \in Cells(Len(ys), Len(xs)) |-> xs[p[2] + 1]]]

meshgrid_Y(xs, ys) ==
  [nrows |-> Len(ys), ncols |-> Len(xs),
   px |-> [p \in Cells(Len(ys), Len(xs)) |-> ys[p[1] + 1]]]

\* Fortran-order flattening (column-major), as ravel(order='F') would give
ravel_F(a) ==
  [k \in 1 .. a.nrows * a.ncols |-> a.px[<<(k - 1) % a.nrows, (k - 1) \div a.nrows>>]]

\* a.ravel(): C-order flattening, element k (0-based) is a[k // ncols, k % ncols]
ravel(a) ==
  [k \in 1 .. a.nrows * a.ncols |-> a.px[<<(k - 1) \div a.ncols, (k - 1) % a.ncols>>]]

\* np.vstack((a, b, c)).transpose() of three flat arrays of one length
vstack_transpose(a, b, c) == [k \in 1 .. Len(a) |-> <<a[k], b[k], c[k]>>]

nonzero_I(row) == row[3] # 0

\* a sparse listing: only the pixels that hold a count
image_to_photon_events_sparse(image) ==
  LET xs == arange_plus_half(image.ncols)
      ys == arange_plus_half(image.nrows)
  IN  SelectSeq(vstack_transpose(ravel(meshgrid_X(xs, ys)), ravel(meshgrid_Y(xs, ys)),
                                 ravel(image)),
                nonzero_I)

image_to_photon_events(image) ==
  LET xs == arange_plus_half(image.ncols)
      ys == arange_plus_half(image.nrows)
  IN  vstack_transpose(ravel(meshgrid_X(xs, ys)), ravel(meshgrid_Y(xs, ys)), ravel(image))

\* (v - 0.5).astype(int) on a doubled value: C truncation towards zero
astype_int_minus_half(v2) ==
  IF v2 - 1 >= 0 THEN (v2 - 1) \div 2 ELSE -((1 - v2) \div 2)

RECURSIVE seq_max(_)
seq_max(s) ==
  IF Len(s) = 1 THEN s[1] ELSE Max(s[1], seq_max(Tail(s)))

np_zeros(nrows, ncols) ==
  [nrows |-> nrows, ncols |-> ncols, px |-> [p \in Cells(nrows, ncols) |-> 0]]

\* image[yind, xind] += I with every duplicate counted (np.add.at)
RECURSIVE index_assign_sum(_, _, _, _, _)
index_assign_sum(image, yind, xind, I, k) ==
  IF k > Len(I) THEN image
  ELSE index_assign_sum([image EXCEPT !.px[<<yind[k], xind[k]>>] = @ + I[k]],
                        yind, xind, I, k + 1)

\* image[yind, xind] = I : the element assignments are made in sequence order
RECURSIVE index_assign(_, _, _, _, _)
index_assign(image, yind, xind, I, k) ==
  IF k > Len(I) THEN image
  ELSE index_assign([image EXCEPT !.px[<<yind[k], xind[k]>>] = I[k]], yind, xind, I, k + 1)

\* the outcome of a call: a return value or a raised exception
Returned(img) == [kind |-> "return", exc |-> "", image |-> img]
Raised(e) == [kind |-> "raise", exc |-> e, image |-> NoImage]
NotCalled == [kind |-> "none", exc |-> "", image |-> NoImage]

\* an empty array taken as an empty image instead of failing on max()
photon_events_to_image_lenient(photon_events) ==
  LET xind == [k \in 1 .. Len(photon_events) |-> astype_int_minus_half(photon_events[k][1])]
      yind == [k \in 1 .. Len(photon_events) |-> astype_int_minus_half(photon_events[k][2])]
      I == [k \in 1 .. Len(photon_events) |-> photon_events[k][3]]
  IN  IF Len(yind) = 0
      THEN [kind |-> "return", exc |-> "", image |-> NoImage]
      ELSE [kind |-> "return", exc |-> "",
            image |-> index_assign(np_zeros(seq_max(yind) + 1, seq_max(xind) + 1),
                                   yind, xind, I, 1)]

photon_events_to_image(photon_events) ==
  LET x == [k \in 1 .. Len(photon_events) |-> photon_events[k][1]]
      y == [k \in 1 .. Len(photon_events) |-> photon_events[k][2]]
      I == [k \in 1 .. Len(photon_events) |-> photon_events[k][3]]
      xind == [k \in 1 .. Len(x) |-> astype_int_minus_half(x[k])]
      yind == [k \in 1 .. Len(y) |-> astype_int_minus_half(y[k])]
  IN  IF Len(yind) = 0
      THEN Raised("ValueError")
      ELSE Returned(index_assign(np_zeros(seq_max(yind) + 1, seq_max(xind) + 1),
                                 yind, xind, I, 1))

\* ------------------------------------------------------------ file names
\* A file name is a sequence of one-character strings.
\* s[-n:] : the last n characters, the whole string when it is shorter
last_chars(s, n) == SubSeq(s, Max(1, Len(s) - n + 1), Len(s))

lower_char(ch) ==
  CASE ch = "H" -> "h" [] ch = "T" -> "t" [] ch = "I" -> "i" [] ch = "F" -> "f"
    [] ch = "N" -> "n" [] ch = "X" -> "x" [] ch = "S" -> "s" [] ch = "D" -> "d"
    [] ch = "A" -> "a" [] ch = "P" -> "p" [] ch = "E" -> "e" [] ch = "C" -> "c"
    [] ch = "Y" -> "y" [] ch = "Z" -> "z" [] OTHER -> ch

\* str.lower()
lower(s) == [k \in 1 .. Len(s) |-> lower_char(s[k])]

\* sub in s : substring test
contains(s, sub) ==
  \E k \in 1 .. Len(s) - Len(sub) + 1 : SubSeq(s, k, k + Len(sub) - 1) = sub

Stem == <<"a">>

Extensions ==
  { <<".", "h", "5">>, <<".", "H", "5">>,
    <<".", "t", "i", "f">>, <<".", "T", "I", "F">>, <<".", "T", "i", "f">>,
    <<".", "n", "x", "s">>, <<".", "N", "X", "S">>,
    <<".", "t", "x", "t">>, <<".", "T", "X", "T">>,
    <<".", "d", "a", "t">>, <<".", "D", "a", "t">>,
    <<".", "s", "p", "e", "c">>, <<".", "S", "P", "E", "C">>,
    <<".", "x", "y", "z">>, <<".", "h", "5", "x">> }

FileNames == { Stem \o e : e \in Extensions } \cup { <<>>, <<"h", "5">>, <<"t", "x", "t">> }

\* ---------------------------------------------------------- file contents
\* What is stored under a path, whatever the path is called.  Each reader
\* accepts the one content type it parses and raises on any other.
NoNx == << >>

Content(type, XY, I, img, nx, table) ==
  [type |-> type, XY |-> XY, I |-> I, image |-> img, nx |-> nx, table |-> table]

H5EventLists == { <<>>, << <<1, 1>> >>, << <<3, 1>>, <<1, 3>> >> }
H5Spectra == { <<>>, << 5 >>, << 5, 7 >> }
TextTables == { <<>>, << <<0, 5>> >>, << <<0, 5>>, <<1, 7>> >> }

image_of(nrows, ncols, vals) ==
  [nrows |-> nrows, ncols |-> ncols,
   px |-> [p \in Cells(nrows, ncols) |-> vals[p[1] * ncols + p[2] + 1]]]

TifImages == { image_of(1, 1, <<1>>), image_of(1, 2, <<0, 1>>), image_of(2, 1, <<1, 0>>) }

\* the frames a scan may hold: two distinguishable 1 x 1 images
FrameImages == { image_of(1, 1, <<0>>), image_of(1, 1, <<1>>) }

ScanKeys == { <<"s", "c", "a", "n", "_", "1">>, <<"p", "r", "e", "s", "c", "a", "n">> }
OtherKeys == { <<"e", "n", "t", "r", "y">> }

NxEntries ==
  { [key |-> k, data |-> d] : k \in ScanKeys, d \in SeqsUpTo(FrameImages, MaxFrames) }
    \cup { [key |-> k, data |-> <<>>] : k \in OtherKeys }

\* the groups of a NeXus file, in the order iteration over the file yields them
NxFiles ==
  { <<>> } \cup { <<e>> : e \in NxEntries }
    \cup { f \in { <<e1, e2>> : e1 \in NxEntries, e2 \in NxEntries } : f[1].key # f[2].key }

Files ==
  { Content("missing", <<>>, <<>>, NoImage, NoNx, <<>>) }
    \cup { Content("h5events", xy, <<>>, NoImage, NoNx, <<>>) : xy \in H5EventLists }
    \cup { Content("h5spectrum", <<>>, I, NoImage, NoNx, <<>>) : I \in H5Spectra }
    \cup { Content("image", <<>>, <<>>, img, NoNx, <<>>) : img \in TifImages }
    \cup { Content("nxs", <<>>, <<>>, NoImage, nx, <<>>) : nx \in NxFiles }
    \cup { Content("text", <<>>, <<>>, NoImage, NoNx, t) : t \in TextTables }

\* ------------------------------------------------------------ the loaders
\* The outcome of a loader call.  value names what was returned ("None",
\* "events", "list", "table"); readers lists the file readers invoked, in
\* order; printed lists the diagnostics written; opened and closed count the
\* HDF5 handles the call opened and closed.
Outcome(kind, exc, branch, value, events, list, table, readers, printed, opened, closed) ==
  [kind |-> kind, exc |-> exc, branch |-> branch, value |-> value,
   events |-> events, list |-> list, table |-> table,
   readers |-> readers, printed |-> printed, opened |-> opened, closed |-> closed]

NoCall == Outcome("none", "", "", "", <<>>, <<>>, <<>>, <<>>, <<>>, 0, 0)

\* the index of the last group whose key contains 'scan', 0 when there is none
RECURSIVE last_scan(_, _)
last_scan(fload, k) ==
  IF k = 0 THEN 0
  ELSE IF contains(fload[k].key, <<"s", "c", "a", "n">>) THEN k
  ELSE last_scan(fload, k - 1)

load_nxfile(f) ==
  IF f.type # "nxs"
  THEN [kind |-> "raise", exc |-> "NeXusError", image |-> <<>>, printed |-> <<>>]
  ELSE LET fload == f.nx
           lb == last_scan(fload, Len(fload))
       IN  IF lb = 0
           THEN [kind |-> "raise", exc |-> "UnboundLocalError", image |-> <<>>,
                 printed |-> <<>>]
           ELSE LET data == fload[lb].data
                IN  [kind |-> "return", exc |-> "",
                     image |-> [i \in 1 .. Len(data) |-> data[i]],
                     printed |-> << "NXS file contains image(s)" >>]

\* get_image's else branch: print(...) and fall off the end (None)
unknown_extension_raises ==
  Outcome("raise", "Unknown file extention", "unknown", "", <<>>, <<>>, <<>>, <<>>, <<>>, 0, 0)

unknown_extension ==
  Outcome("return", "", "unknown", "None", <<>>, <<>>, <<>>, <<>>,
          << "Unknown file extention" >>, 0, 0)

get_image(name, f) ==
  IF lower(last_chars(name, 3)) = <<".", "h", "5">>
  THEN IF f.type \notin { "h5events", "h5spectrum" }
       THEN Outcome("raise", "OSError", "h5", "", <<>>, <<>>, <<>>,
                    << "h5py.File" >>, <<>>, 0, 0)
       ELSE IF f.type # "h5events"
       THEN Outcome("raise", "KeyError", "h5", "", <<>>, <<>>, <<>>,
                    << "h5py.File" >>, <<>>, 1, 0)
       ELSE LET XY == f.XY
                I == [k \in 1 .. Len(XY) |-> 1]
            IN  Outcome("return", "", "h5", "events",
                        [k \in 1 .. Len(XY) |-> <<XY[k][1], XY[k][2], I[k]>>],
                        <<>>, <<>>, << "h5py.File" >>, <<>>, 1, 0)
  ELSE IF lower(last_chars(name, 4)) = <<".", "t", "i", "f">>
  THEN IF f.type # "image"
       THEN Outcome("raise", "OSError", "tif", "", <<>>, <<>>, <<>>,
                    << "plt.imread" >>, <<>>, 0, 0)
       ELSE Outcome("return", "", "tif", "events", image_to_photon_events(f.image),
                    <<>>, <<>>, << "plt.imread" >>, <<>>, 0, 0)
  ELSE IF lower(last_chars(name, 4)) = <<".", "n", "x", "s">>
  THEN LET loaded == load_nxfile(f)
       IN  IF loaded.kind = "raise"
           THEN Outcome("raise", loaded.exc, "nxs", "", <<>>, <<>>, <<>>,
                        << "nxload" >>, loaded.printed, 0, 0)
           ELSE Outcome("return", "", "nxs", "list", <<>>,
                        [i \in 1 .. Len(loaded.image) |->
                           image_to_photon_events(loaded.image[i])],
                        <<>>, << "nxload" >>, loaded.printed, 0, 0)
  ELSE unknown_extension

np_loadtxt(f, branch) ==
  IF f.type # "text"
  THEN Outcome("raise", "ValueError", branch, "", <<>>, <<>>, <<>>,
               << "np.loadtxt" >>, <<>>, 0, 0)
  ELSE Outcome("return", "", branch, "table", <<>>, <<>>, f.table,
               << "np.loadtxt" >>, <<>>, 0, 0)

\* get_spectrum's else branch: raise Exception('Wrong file extension')
wrong_extension_prints ==
  Outcome("return", "", "unknown", "None", <<>>, <<>>, <<>>, <<>>,
          << "Wrong file extension" >>, 0, 0)

wrong_extension ==
  Outcome("raise", "Wrong file extension", "unknown", "", <<>>, <<>>, <<>>, <<>>, <<>>, 0, 0)

get_spectrum(name, f) ==
  IF last_chars(name, 4) = <<".", "t", "x", "t">>
  THEN np_loadtxt(f, "txt")
  ELSE IF last_chars(name, 4) = <<".", "d", "a", "t">>
  THEN np_loadtxt(f, "dat")
  ELSE IF last_chars(name, 4) = <<".", "s", "p", "e", "c">>
  THEN np_loadtxt(f, "spec")
  ELSE IF lower(last_chars(name, 3)) = <<".", "h", "5">>
  THEN IF f.type \notin { "h5events", "h5spectrum" }
       THEN Outcome("raise", "OSError", "h5", "", <<>>, <<>>, <<>>,
                    << "h5py.File" >>, <<>>, 0, 0)
       ELSE IF f.type # "h5spectrum"
       THEN Outcome("raise", "KeyError", "h5", "", <<>>, <<>>, <<>>,
                    << "h5py.File" >>, <<>>, 1, 0)
       ELSE LET I == f.I
            IN  Outcome("return", "", "h5", "table", <<>>, <<>>,
                        [k \in 1 .. Len(I) |-> <<k - 1, I[k], I[k]>>],
                        << "h5py.File" >>, <<>>, 1, 1)
  ELSE wrong_extension

\* ------------------------------------------------------ converter machine
VARIABLES pc, image, photon_events, result,
          filename, file, call, open_handles

conv_vars == <<pc, image, photon_events, result>>
load_vars == <<filename, file, call, open_handles>>
vars == <<pc, image, photon_events, result, filename, file, call, open_handles>>

\* One conversion session: the caller holds either an image or an events
\* array, converts it, and may convert the events of an image back.
InitConv ==
  /\ \/ pc = "image_in" /\ image \in Images /\ photon_events = <<>>
     \/ pc = "events_in" /\ image = NoImage /\ photon_events \in EventArrays
  /\ result = NotCalled
  /\ filename = <<>> /\ file = Content("missing", <<>>, <<>>, NoImage, NoNx, <<>>)
  /\ call = [fn |-> "none", out |-> NoCall] /\ open_handles = 0

ImageToPhotonEvents ==
  /\ pc = "image_in"
  /\ photon_events' = image_to_photon_events(image)
  /\ pc' = "events_out"
  /\ UNCHANGED <<image, result>>
  /\ UNCHANGED load_vars

\* photon_events_to_image on the array image_to_photon_events returned
PhotonEventsBackToImage ==
  /\ pc = "events_out"
  /\ result' = photon_events_to_image(photon_events)
  /\ pc' = "image_back"
  /\ UNCHANGED <<image, photon_events>>
  /\ UNCHANGED load_vars

\* photon_events_to_image on an array the caller supplies
PhotonEventsToImage ==
  /\ pc = "events_in"
  /\ result' = photon_events_to_image(photon_events)
  /\ pc' = "image_out"
  /\ UNCHANGED <<image, photon_events>>
  /\ UNCHANGED load_vars

NextConv == ImageToPhotonEvents \/ PhotonEventsBackToImage \/ PhotonEventsToImage

SpecConv == InitConv /\ [][NextConv]_vars

\* --------------------------------------------------------- loader machine
\* One path on disk with some content; the loaders are called on it any
\* number of times.  open_handles counts the HDF5 handles opened and not
\* closed by the calls made so far.
InitLoad ==
  /\ filename \in FileNames
  /\ file \in Files
  /\ call = [fn |-> "none", out |-> NoCall]
  /\ open_handles = 0
  /\ pc = "idle" /\ image = NoImage /\ photon_events = <<>> /\ result = NotCalled

GetImage ==
  /\ open_handles < MaxOpen
  /\ LET out == get_image(filename, file)
     IN  /\ call' = [fn |-> "get_image", out |-> out]
         /\ open_handles' = open_handles + out.opened - out.closed
  /\ UNCHANGED <<filename, file>>
  /\ UNCHANGED conv_vars

GetSpectrum ==
  /\ open_handles < MaxOpen
  /\ LET out == get_spectrum(filename, file)
     IN  /\ call' = [fn |-> "get_spectrum", out |-> out]
         /\ open_handles' = open_handles + out.opened - out.closed
  /\ UNCHANGED <<filename, file>>
  /\ UNCHANGED conv_vars

NextLoad == GetImage \/ GetSpectrum

SpecLoad == InitLoad /\ [][NextLoad]_vars

\* ================================================================ claims
HasSuffix(name, ext) ==
  /\ Len(name) >= Len(ext)
  /\ SubSeq(name, Len(name) - Len(ext) + 1, Len(name)) = ext

ImageSuffixes == { <<".", "h", "5">>, <<".", "t", "i", "f">>, <<".", "n", "x", "s">> }
TextSuffixes ==
  { <<".", "t", "x", "t">>, <<".", "d", "a", "t">>, <<".", "s", "p", "e", "c">> }
SpectrumSuffixes == TextSuffixes \cup { <<".", "h", "5">> }

\* C1: converting an image with at least one row and one column to photon
\* events and back returns an image of the same shape holding the same value
\* in every cell, also when the last row or the last column is all zeros.
RoundTrip ==
  (pc = "image_back" /\ image.nrows >= 1 /\ image.ncols >= 1)
    => /\ result.kind = "return"
       /\ result.image.nrows = image.nrows
       /\ result.image.ncols = image.ncols
       /\ \A p \in Cells(image.nrows, image.ncols) : result.image.px[p] = image.px[p]

RoundTripWitness ==
  /\ pc = "image_back"
  /\ image.nrows = 2 /\ image.ncols = 2
  /\ image.px[<<0, 0>>] = 1
  /\ image.px[<<0, 1>>] = 0 /\ image.px[<<1, 0>>] = 0 /\ image.px[<<1, 1>>] = 0
  /\ result.kind = "return" /\ result.image = image

\* C2: image_to_photon_events returns nrows * ncols rows, and the row at
\* 0-based position r * ncols + c is (c + 0.5, r + 0.5, image[r][c]); a zero
\* pixel has its row like any other.
EventLayout ==
  pc = "events_out"
    => /\ Len(photon_events) = image.nrows * image.ncols
       /\ \A r \in 0 .. image.nrows - 1 : \A c \in 0 .. image.ncols - 1 :
            photon_events[r * image.ncols + c + 1]
              = <<2 * c + 1, 2 * r + 1, image.px[<<r, c>>]>>

EventLayoutWitness ==
  /\ pc = "events_out"
  /\ image.nrows = 2 /\ image.ncols = 2
  /\ image.px[<<0, 1>>] = 1 /\ image.px[<<1, 0>>] = 0
  /\ Len(photon_events) = 4
  /\ photon_events[2] = <<3, 1, 1>>
  /\ photon_events[3] = <<1, 3, 0>>

\* the reference reconstruction: floor(v - 0.5) of a doubled coordinate, the
\* events that map to a pixel, and the last of them
RefCol(k) == (photon_events[k][1] - 1) \div 2
RefRow(k) == (photon_events[k][2] - 1) \div 2
RefHits(p) == { k \in 1 .. Len(photon_events) : <<RefRow(k), RefCol(k)>> = p }
RefLast(p) == CHOOSE k \in RefHits(p) : \A j \in RefHits(p) : j <= k

\* C3: on a non-empty events array with every x and y >= 0.5,
\* photon_events_to_image returns the reference image: with c = floor(x - 0.5)
\* and r = floor(y - 0.5), its shape is (max r + 1, max c + 1), a cell no event
\* maps to holds 0, and any other cell holds the I of the last event mapping
\* to it.
ReferenceReconstruction ==
  ( /\ pc = "image_out"
    /\ Len(photon_events) > 0
    /\ \A k \in 1 .. Len(photon_events) :
         photon_events[k][1] >= 1 /\ photon_events[k][2] >= 1 )
    => /\ result.kind = "return"
       /\ \E k \in 1 .. Len(photon_events) :
            /\ result.image.nrows = RefRow(k) + 1
            /\ \A j \in 1 .. Len(photon_events) : RefRow(j) <= RefRow(k)
       /\ \E k \in 1 .. Len(photon_events) :
            /\ result.image.ncols = RefCol(k) + 1
            /\ \A j \in 1 .. Len(photon_events) : RefCol(j) <= RefCol(k)
       /\ DOMAIN result.image.px = Cells(result.image.nrows, result.image.ncols)
       /\ \A p \in Cells(result.image.nrows, result.image.ncols) :
            result.image.px[p]
              = IF RefHits(p) = {} THEN 0 ELSE photon_events[RefLast(p)][3]

\* two events on pixel (1, 1), the first with a count and the second without,
\* and pixels no event maps to
ReferenceReconstructionWitness ==
  /\ pc = "image_out"
  /\ photon_events = << <<3, 3, 1>>, <<3, 3, 0>> >>
  /\ result.kind = "return"
  /\ result.image.nrows = 2 /\ result.image.ncols = 2
  /\ result.image.px[<<1, 1>>] = 0
  /\ result.image.px[<<0, 0>>] = 0

\* C4: photon_events_to_image on an empty events array ends in an error and
\* returns no image.
EmptyEventsFail ==
  (pc \in { "image_out", "image_back" } /\ Len(photon_events) = 0)
    => result.kind = "raise" /\ result.image = NoImage

EmptyEventsFailWitness ==
  /\ pc = "image_out"
  /\ photon_events = <<>>
  /\ result.kind = "raise" /\ result.exc = "ValueError"

\* C5: every HDF5 handle a call of get_image or get_spectrum opened is
\* released when the call ends, on every exit path, so no handle is open
\* between calls.
HandlesReleased ==
  /\ open_handles = 0
  /\ call.out.opened = call.out.closed

\* C6: get_spectrum on a name ending in .txt, .dat or .spec invokes the
\* numeric-table reader, returns the table it parsed, and never fails with the
\* unsupported-extension error.
TextExtensionsInterchangeable ==
  (call.fn = "get_spectrum" /\ \E e \in TextSuffixes : HasSuffix(filename, e))
    => /\ call.out.readers = << "np.loadtxt" >>
       /\ call.out.exc # "Wrong file extension"
       /\ file.type = "text"
            => call.out.kind = "return" /\ call.out.value = "table"
               /\ call.out.table = file.table

\* C7: two names differing only in the letter case of the suffix select the
\* same loader branch and end in the same kind of outcome: the call made on
\* a name does what the call on the lower-cased name does.
CaseInsensitiveSuffix ==
  /\ call.fn = "get_image"
       => /\ call.out.branch = get_image(lower(filename), file).branch
          /\ call.out.kind = get_image(lower(filename), file).kind
  /\ call.fn = "get_spectrum"
       => /\ call.out.branch = get_spectrum(lower(filename), file).branch
          /\ call.out.kind = get_spectrum(lower(filename), file).kind

\* C8: get_image on a name whose suffix is none of .h5, .tif, .nxs in any
\* letter case does not raise: it prints a diagnostic, invokes no file reader
\* and returns None.
UnknownImageExtension ==
  (call.fn = "get_image" /\ ~ \E e \in ImageSuffixes : HasSuffix(lower(filename), e))
    => /\ call.out.kind = "return"
       /\ call.out.value = "None"
       /\ call.out.printed = << "Unknown file extention" >>
       /\ call.out.readers = <<>>
       /\ call.out.opened = 0

UnknownImageExtensionWitness ==
  /\ call.fn = "get_image"
  /\ filename = <<"a", ".", "x", "y", "z">>
  /\ call.out.kind = "return" /\ call.out.value = "None"
  /\ call.out.printed = << "Unknown file extention" >>

\* C9: get_spectrum on a name whose extension is none of .txt, .dat, .spec,
\* .h5 (in any letter case) fails at once: it raises, invokes no file reader
\* and returns no data.
UnknownSpectrumExtension ==
  (call.fn = "get_spectrum"
     /\ ~ \E e \in SpectrumSuffixes : HasSuffix(lower(filename), e))
    => /\ call.out.kind = "raise"
       /\ call.out.exc = "Wrong file extension"
       /\ call.out.readers = <<>>
       /\ call.out.value = "" /\ call.out.table = <<>>
       /\ call.out.opened = 0

UnknownSpectrumExtensionWitness ==
  /\ call.fn = "get_spectrum"
  /\ filename = <<"a", ".", "x", "y", "z">>
  /\ file.type = "text"
  /\ call.out.kind = "raise" /\ call.out.exc = "Wrong file extension"

\* the frames of every scan group of a file, in file order
RECURSIVE all_frames(_, _)
all_frames(fload, k) ==
  IF k > Len(fload) THEN <<>>
  ELSE IF contains(fload[k].key, <<"s", "c", "a", "n">>)
  THEN fload[k].data \o all_frames(fload, k + 1)
  ELSE all_frames(fload, k + 1)

HasScan(fload) ==
  \E k \in 1 .. Len(fload) : contains(fload[k].key, <<"s", "c", "a", "n">>)

\* C10: get_image on an .nxs file returns one events array per frame the
\* file contains, in frame order, the k-th being image_to_photon_events of
\* the k-th frame, with no frame left out, also when the file holds more than
\* one scan.
EveryFrameOfEveryScan ==
  ( /\ call.fn = "get_image"
    /\ HasSuffix(lower(filename), <<".", "n", "x", "s">>)
    /\ file.type = "nxs" /\ HasScan(file.nx) )
    => /\ call.out.kind = "return" /\ call.out.value = "list"
       /\ LET frames == all_frames(file.nx, 1)
          IN  /\ Len(call.out.list) = Len(frames)
              /\ \A k \in 1 .. Len(frames) :
                   call.out.list[k] = image_to_photon_events(frames[k])

====
